---- MODULE Spec2Model ----
(***************************************************************************)
(* A model of enclose::solve (src/solver.hpp): the flood fill that indexes *)
(* the open cells, the node-split flow template, the bounded max-flow, the *)
(* min-separator extraction and the branch-and-bound search dfs, run as an *)
(* explicit stack of frames.                                               *)
(*                                                                         *)
(* A grid is a sequence of rows, a row a sequence of one-character         *)
(* strings.  Rows, columns, cell indices, flow nodes and edge ids are      *)
(* 0-based as in the source; a DynamicBitset is the set of its set bits.   *)
(***************************************************************************)
EXTENDS Integers, Sequences, FiniteSets, TLC

VARIABLES
    k,              \* solve's argument k
    grid,           \* solve's argument grid
    junk,           \* what a read past the end of a row yields, per position
    pc,             \* "start", "search", "done", "error", "crashed"
    err,            \* "none" or the error solve ended with
    oob,            \* an out-of-range read has happened
    graph,          \* N, coords, adj, wallable, boundary (lines 262-320)
    flow,           \* the FlowTemplate and the edge indices (lines 326-358)
    best_area,      \* line 437
    best_walls,     \* line 438
    visited_states, \* line 443
    stack,          \* the dfs frames, innermost last
    last,           \* what the latest dfs body did
    res             \* the SolveResult returned

vars == <<k, grid, junk, pc, err, oob, graph, flow, best_area, best_walls,
          visited_states, stack, last, res>>

(***************************************************************************)
(* Small helpers                                                           *)
(***************************************************************************)
Min(S) == CHOOSE x \in S : \A y \in S : x <= y

RECURSIVE SetToSeq(_)
SetToSeq(S) == IF S = {} THEN <<>> ELSE LET m == Min(S) IN <<m>> \o SetToSeq(S \ {m})

Range(s) == {s[i] : i \in 1..Len(s)}

(* The character std::string::operator[] yields at index size(). *)
NUL == "NUL"

(***************************************************************************)
(* DynamicBitset operations (sets of bit indices)                          *)
(***************************************************************************)
popcount(b) == Cardinality(b)

intersects(a, b) == a \cap b # {}

subset_of(a, sup) == a \ sup = {}

first_set_bit(b) == IF b = {} THEN -1 ELSE Min(b)

(***************************************************************************)
(* Reading the grid                                                        *)
(***************************************************************************)
(* A variant of is_open_cell that takes every character but '#' as open. *)
is_open_cell_AllButHash(ch) == ch # "#"

is_open_cell(ch) == ch = "." \/ ch = "H"

NumRows(gd) == Len(gd)

NumCols(gd) == Len(gd[1])

(* grid[r][c]: the row's character, the terminator at index size(), and    *)
(* whatever lies in memory beyond it.                                      *)
ReadCell(gd, jk, r, c) ==
    IF c < Len(gd[r + 1]) THEN gd[r + 1][c + 1]
    ELSE IF c = Len(gd[r + 1]) THEN NUL
    ELSE jk[<<r, c>>]

(* The positions of the R x C rectangle that lie past a row's terminator. *)
PastEnd(gd) ==
    IF Len(gd) = 0 THEN {}
    ELSE {p \in (0..(NumRows(gd) - 1)) \X (0..(NumCols(gd) - 1)) : p[2] > Len(gd[p[1] + 1])}

(* The horse scan: the first 'H' in row-major order, or <<-1, -1>>. *)
FindHorse(gd, jk) ==
    LET R == NumRows(gd)
        C == NumCols(gd)
        rows == {r \in 0..(R - 1) : \E c \in 0..(C - 1) : ReadCell(gd, jk, r, c) = "H"}
    IN IF rows = {} THEN <<-1, -1>>
       ELSE LET hr == Min(rows)
                hc == Min({c \in 0..(C - 1) : ReadCell(gd, jk, hr, c) = "H"})
            IN <<hr, hc>>

(* The positions the horse scan reads. *)
ScanReads(gd, h) ==
    LET R == NumRows(gd)
        C == NumCols(gd)
    IN IF h[1] = -1 THEN (0..(R - 1)) \X (0..(C - 1))
       ELSE ((0..(h[1] - 1)) \X (0..(C - 1))) \cup ({h[1]} \X (0..h[2]))

drs == <<1, -1, 0, 0>>

dcs == <<0, 0, 1, -1>>

(* The key of idx_of, lines 265-267: the row above bit 32 and the column   *)
(* below it, so one key per position (also for the -1, R and C of a        *)
(* neighbour outside the grid): the pair itself stands for the packed key. *)
key(r, c) == <<r, c>>

(* idx_of.find(kk): the index, or -1 for end(). *)
Find(idx_of, kk) == IF kk \in DOMAIN idx_of THEN idx_of[kk] ELSE -1

(* The four neighbours of the cell taken from the queue, lines 285-297;    *)
(* st is [coords, idx_of].                                                 *)
RECURSIVE FloodNeighbours(_, _, _, _, _, _)
FloodNeighbours(gd, jk, st, r, c, di) ==
    IF di > 4 THEN st
    ELSE LET nr == r + drs[di]
             nc == c + dcs[di]
         IN IF nr < 0 \/ nr >= NumRows(gd) \/ nc < 0 \/ nc >= NumCols(gd)
               THEN FloodNeighbours(gd, jk, st, r, c, di + 1)
            ELSE IF ~is_open_cell(ReadCell(gd, jk, nr, nc))
               THEN FloodNeighbours(gd, jk, st, r, c, di + 1)
            ELSE IF Find(st.idx_of, key(nr, nc)) # -1
               THEN FloodNeighbours(gd, jk, st, r, c, di + 1)
            ELSE FloodNeighbours(gd, jk,
                                 [coords |-> Append(st.coords, <<nr, nc>>),
                                  idx_of |-> st.idx_of @@ (key(nr, nc) :> Len(st.coords))],
                                 r, c, di + 1)

(* The initial flood fill, lines 272-298.  Every cell pushed on q is       *)
(* appended to coords at the same time, so q is coords from position qi.   *)
RECURSIVE FloodLoop(_, _, _, _)
FloodLoop(gd, jk, st, qi) ==
    IF qi > Len(st.coords) THEN st
    ELSE FloodLoop(gd, jk,
                   FloodNeighbours(gd, jk, st, st.coords[qi][1], st.coords[qi][2], 1),
                   qi + 1)

FloodFill(gd, jk, h) ==
    FloodLoop(gd, jk, [coords |-> <<h>>, idx_of |-> (key(h[1], h[2]) :> 0)], 1)

(* The positions the flood fill reads: the in-range neighbours. *)
FloodReads(gd, coords) ==
    {p \in UNION {{<<coords[i][1] + drs[di], coords[i][2] + dcs[di]>> : di \in 1..4} :
                     i \in 1..Len(coords)} :
        /\ p[1] >= 0 /\ p[1] < NumRows(gd)
        /\ p[2] >= 0 /\ p[2] < NumCols(gd)}

(* adj[i], lines 314-319: the indexed neighbours in direction order. *)
RECURSIVE AdjOf(_, _, _, _)
AdjOf(idx_of, r, c, di) ==
    IF di > 4 THEN <<>>
    ELSE LET j == Find(idx_of, key(r + drs[di], c + dcs[di]))
         IN (IF j # -1 THEN <<j>> ELSE <<>>) \o AdjOf(idx_of, r, c, di + 1)

(* Lines 300-320. *)
BuildGraph(gd, jk, ff) ==
    LET coords == ff.coords
        N == Len(coords)
        R == NumRows(gd)
        C == NumCols(gd)
    IN [N |-> N,
        coords |-> coords,
        adj |-> [i \in 0..(N - 1) |-> AdjOf(ff.idx_of, coords[i + 1][1], coords[i + 1][2], 1)],
        wallable |-> [i \in 0..(N - 1) |->
                         ReadCell(gd, jk, coords[i + 1][1], coords[i + 1][2]) = "."],
        boundary |-> {i \in 0..(N - 1) :
                         \/ coords[i + 1][1] = 0 \/ coords[i + 1][1] = R - 1
                         \/ coords[i + 1][2] = 0 \/ coords[i + 1][2] = C - 1}]

horse_idx == 0

(***************************************************************************)
(* FlowTemplate                                                            *)
(***************************************************************************)
(* The add_edge calls of lines 335-356 in order, each <<u, v, c>>. *)
RECURSIVE NeighbourEdges(_, _, _)
NeighbourEdges(gph, INF, i) ==
    IF i >= gph.N THEN <<>>
    ELSE [j \in 1..Len(gph.adj[i]) |-> <<2 * i + 1, 2 * gph.adj[i][j], INF>>]
         \o NeighbourEdges(gph, INF, i + 1)

CellCap(gph, INF, i) == IF i = horse_idx \/ ~gph.wallable[i] THEN INF ELSE 1

SrcCap(INF, i) == IF i = horse_idx THEN INF ELSE 0

EdgeAdds(gph, INF) ==
    LET N == gph.N
        SRC == 2 * N
        SNK == 2 * N + 1
        bnd == SetToSeq(gph.boundary)
    IN [i \in 1..N |-> <<2 * (i - 1), 2 * (i - 1) + 1, CellCap(gph, INF, i - 1)>>]
       \o NeighbourEdges(gph, INF, 0)
       \o [b \in 1..Len(bnd) |-> <<2 * bnd[b] + 1, SNK, INF>>]
       \o [i \in 1..N |-> <<SRC, 2 * (i - 1) + 1, SrcCap(INF, i - 1)>>]

(* add_edge, lines 174-192: call number m (from 0), <<u, v, c>>, makes the *)
(* forward edge 2m and its reverse twin 2m + 1.  Each call appends its ids *)
(* to the lists, so adj[u] holds the edges leaving u and in_adj[v] the     *)
(* edges entering v, both in ascending id.                                 *)
add_edge(adds, n) ==
    LET M == Len(adds)
        E == 0..(2 * M - 1)
        to == [e \in E |-> IF e % 2 = 0 THEN adds[(e \div 2) + 1][2] ELSE adds[(e \div 2) + 1][1]]
        frm == [e \in E |-> IF e % 2 = 0 THEN adds[(e \div 2) + 1][1] ELSE adds[(e \div 2) + 1][2]]
    IN [n |-> n,
        to |-> to,
        frm |-> frm,
        rev |-> [e \in E |-> IF e % 2 = 0 THEN e + 1 ELSE e - 1],
        base_cap |-> [e \in E |-> IF e % 2 = 0 THEN adds[(e \div 2) + 1][3] ELSE 0],
        adj |-> [u \in 0..(n - 1) |-> SetToSeq({e \in E : frm[e] = u})],
        in_adj |-> [v \in 0..(n - 1) |-> SetToSeq({e \in E : to[e] = v})]]

(* Lines 326-358: the template and the per-cell edge ids. *)
BuildFlow(gph, INF) ==
    LET N == gph.N
        adds == EdgeAdds(gph, INF)
        nsrc == Len(adds) - N
    IN [t |-> add_edge(adds, 2 * N + 2),
        SRC |-> 2 * N,
        SNK |-> 2 * N + 1,
        cell_edge_idx |-> [i \in 0..(N - 1) |-> 2 * i],
        src_edge_idx |-> [i \in 0..(N - 1) |-> 2 * (nsrc + i)]]

(* The for loop over adj[u], lines 207-217; st is [parent, q]. *)
RECURSIVE ScanEdges(_, _, _, _, _, _)
ScanEdges(ft, t, cap, es, i, st) ==
    IF i > Len(es) THEN st
    ELSE LET e == es[i]
             v == ft.to[e]
         IN IF cap[e] <= 0 THEN ScanEdges(ft, t, cap, es, i + 1, st)
            ELSE IF st.parent[v] # -1 THEN ScanEdges(ft, t, cap, es, i + 1, st)
            ELSE IF v = t THEN [parent |-> [st.parent EXCEPT ![v] = e], q |-> <<>>]
            ELSE ScanEdges(ft, t, cap, es, i + 1,
                           [parent |-> [st.parent EXCEPT ![v] = e], q |-> Append(st.q, v)])

(* The breadth-first search for an augmenting path, lines 204-218. *)
RECURSIVE AugmentingPath(_, _, _, _)
AugmentingPath(ft, t, cap, st) ==
    IF st.q = <<>> \/ st.parent[t] # -1 THEN st.parent
    ELSE AugmentingPath(ft, t, cap,
             ScanEdges(ft, t, cap, ft.adj[Head(st.q)], 1,
                       [parent |-> st.parent, q |-> Tail(st.q)]))

(* A variant of Augment that leaves the reverse edges as they are. *)
RECURSIVE Augment_NoReverse(_, _, _, _, _)
Augment_NoReverse(ft, s, parent, cap, v) ==
    IF v = s THEN cap
    ELSE LET e == parent[v]
         IN Augment_NoReverse(ft, s, parent, [cap EXCEPT ![e] = @ - 1], ft.frm[e])

(* One unit pushed back along the path, lines 222-228. *)
RECURSIVE Augment(_, _, _, _, _)
Augment(ft, s, parent, cap, v) ==
    IF v = s THEN cap
    ELSE LET e == parent[v]
         IN Augment(ft, s, parent,
                    [cap EXCEPT ![e] = @ - 1, ![ft.rev[e]] = @ + 1], ft.frm[e])

RECURSIVE MaxflowLoop(_, _, _, _, _, _)
MaxflowLoop(ft, s, t, cap, limit, f) ==
    IF ~(f < limit) THEN [flow |-> f, cap |-> cap]
    ELSE LET parent == AugmentingPath(ft, t, cap,
                           [parent |-> [v \in 0..(ft.n - 1) |-> IF v = s THEN -2 ELSE -1],
                            q |-> <<s>>])
         IN IF parent[t] = -1 THEN [flow |-> f, cap |-> cap]
            ELSE MaxflowLoop(ft, s, t, Augment(ft, s, parent, cap, t), limit, f + 1)

(* FlowTemplate::maxflow_limit, lines 194-232: the flow and the residual cap. *)
maxflow_limit(ft, s, t, cap, limit) == MaxflowLoop(ft, s, t, cap, limit, 0)

(***************************************************************************)
(* The lambdas of solve                                                    *)
(***************************************************************************)
RECURSIVE FloodFrom(_, _, _, _)
FloodFrom(gph, blocked, vis, frontier) ==
    IF frontier = {} THEN vis
    ELSE LET nxt == (UNION {Range(gph.adj[u]) : u \in frontier}) \ (blocked \cup vis)
         IN FloodFrom(gph, blocked, vis \cup nxt, nxt)

(* A variant of bfs_reachable whose area leaves the horse out. *)
bfs_reachable_NoHorse(gph, blocked) ==
    IF horse_idx \in blocked THEN [vis |-> {}, area |-> 0, escapes |-> TRUE]
    ELSE LET vis == FloodFrom(gph, blocked, {horse_idx}, {horse_idx})
         IN [vis |-> vis, area |-> popcount(vis) - 1, escapes |-> intersects(vis, gph.boundary)]

(* bfs_reachable, lines 360-386. *)
bfs_reachable(gph, blocked) ==
    IF horse_idx \in blocked THEN [vis |-> {}, area |-> 0, escapes |-> TRUE]
    ELSE LET vis == FloodFrom(gph, blocked, {horse_idx}, {horse_idx})
         IN [vis |-> vis, area |-> popcount(vis), escapes |-> intersects(vis, gph.boundary)]

(* A variant of the scan back from the sink that follows saturated edges too. *)
RECURSIVE CanReachSink_AnyEdge(_, _, _, _)
CanReachSink_AnyEdge(ft, cap, can, frontier) ==
    IF frontier = {} THEN can
    ELSE LET nxt == {ft.frm[e] : e \in UNION {Range(ft.in_adj[v]) : v \in frontier}} \ can
         IN CanReachSink_AnyEdge(ft, cap, can \cup nxt, nxt)

(* The scan back from the sink over residual edges, lines 409-424. *)
RECURSIVE CanReachSink(_, _, _, _)
CanReachSink(ft, cap, can, frontier) ==
    IF frontier = {} THEN can
    ELSE LET nxt == {ft.frm[e] : e \in {x \in UNION {Range(ft.in_adj[v]) : v \in frontier} :
                                            cap[x] > 0}} \ can
         IN CanReachSink(ft, cap, can \cup nxt, nxt)

(* A variant of the query capacities that leaves the deleted cells' edges open. *)
QueryCap_NoZero(fl, INF, deleted, forced) ==
    LET raised == {fl.cell_edge_idx[i] : i \in forced} \cup {fl.src_edge_idx[i] : i \in forced}
    IN [e \in DOMAIN fl.t.base_cap |-> IF e \in raised THEN INF ELSE fl.t.base_cap[e]]

(* The capacities of a query, lines 392-403. *)
QueryCap(fl, INF, deleted, forced) ==
    LET raised == {fl.cell_edge_idx[i] : i \in forced} \cup {fl.src_edge_idx[i] : i \in forced}
        zeroed == {fl.cell_edge_idx[i] : i \in deleted}
    IN [e \in DOMAIN fl.t.base_cap |->
           IF e \in raised THEN INF ELSE IF e \in zeroed THEN 0 ELSE fl.t.base_cap[e]]

(* A variant of min_separator that accepts a flow of k_rem + 1. *)
min_separator_OneMore(gph, fl, INF, deleted, forced, k_rem) ==
    IF intersects(forced, deleted) THEN [ok |-> FALSE, sep |-> {}, f |-> 0]
    ELSE LET mf == maxflow_limit(fl.t, fl.SRC, fl.SNK, QueryCap(fl, INF, deleted, forced), k_rem + 1)
         IN IF mf.flow > k_rem + 1 THEN [ok |-> FALSE, sep |-> {}, f |-> mf.flow]
            ELSE LET can == CanReachSink(fl.t, mf.cap, {fl.SNK}, {fl.SNK})
                 IN [ok |-> TRUE,
                     sep |-> {i \in 0..(gph.N - 1) :
                                 /\ gph.wallable[i]
                                 /\ ~(i \in deleted \/ i \in forced)
                                 /\ 2 * i \notin can
                                 /\ (2 * i + 1) \in can},
                     f |-> mf.flow]

(* A variant of min_separator whose separator may hold deleted and forced cells. *)
min_separator_KeepsDeleted(gph, fl, INF, deleted, forced, k_rem) ==
    IF intersects(forced, deleted) THEN [ok |-> FALSE, sep |-> {}, f |-> 0]
    ELSE LET mf == maxflow_limit(fl.t, fl.SRC, fl.SNK, QueryCap(fl, INF, deleted, forced), k_rem + 1)
         IN IF mf.flow > k_rem THEN [ok |-> FALSE, sep |-> {}, f |-> mf.flow]
            ELSE LET can == CanReachSink(fl.t, mf.cap, {fl.SNK}, {fl.SNK})
                 IN [ok |-> TRUE,
                     sep |-> {i \in 0..(gph.N - 1) :
                                 /\ gph.wallable[i]
                                 /\ 2 * i \notin can
                                 /\ (2 * i + 1) \in can},
                     f |-> mf.flow]

(* min_separator, lines 388-435: ok is the value returned, sep is sep_out. *)
min_separator(gph, fl, INF, deleted, forced, k_rem) ==
    IF intersects(forced, deleted) THEN [ok |-> FALSE, sep |-> {}, f |-> 0]
    ELSE LET mf == maxflow_limit(fl.t, fl.SRC, fl.SNK, QueryCap(fl, INF, deleted, forced), k_rem + 1)
         IN IF mf.flow > k_rem THEN [ok |-> FALSE, sep |-> {}, f |-> mf.flow]
            ELSE LET can == CanReachSink(fl.t, mf.cap, {fl.SNK}, {fl.SNK})
                 IN [ok |-> TRUE,
                     sep |-> {i \in 0..(gph.N - 1) :
                                 /\ gph.wallable[i]
                                 /\ ~(i \in deleted \/ i \in forced)
                                 /\ 2 * i \notin can
                                 /\ (2 * i + 1) \in can},
                     f |-> mf.flow]

(* A variant of dfs that stores deleted alone as the best walls. *)
dfs_StoresDeleted(gph, fl, INF, fr, visited, barea, bwalls) ==
    LET st == [deleted |-> fr.deleted, forced |-> fr.forced, k_rem |-> fr.k_rem]
        quit(why) == [visited |-> visited \cup {st}, best_area |-> barea, best_walls |-> bwalls,
                      outcome |-> why, sep |-> {}, v |-> -1]
    IN IF st \in visited
          THEN [visited |-> visited, best_area |-> barea, best_walls |-> bwalls,
                outcome |-> "memo", sep |-> {}, v |-> -1]
       ELSE LET now == bfs_reachable(gph, fr.deleted)
            IN IF now.area <= barea THEN quit("bound")
               ELSE IF ~subset_of(fr.forced, now.vis) THEN quit("unreached")
               ELSE LET ms == min_separator(gph, fl, INF, fr.deleted, fr.forced, fr.k_rem)
                    IN IF ~ms.ok THEN quit("infeasible")
                       ELSE LET cand_walls == fr.deleted \cup ms.sep
                                ev == bfs_reachable(gph, cand_walls)
                                better == ~ev.escapes /\ ev.area > barea
                                stop == fr.k_rem = 0 \/ ms.sep = {}
                            IN [visited |-> visited \cup {st},
                                best_area |-> IF better THEN ev.area ELSE barea,
                                best_walls |-> IF better THEN fr.deleted ELSE bwalls,
                                outcome |-> IF stop THEN "leaf" ELSE "branch",
                                sep |-> ms.sep,
                                v |-> IF stop THEN -1 ELSE first_set_bit(ms.sep)]

(* One body of dfs, lines 447-487, for the frame fr: the memo and the bests *)
(* after it, what it did (outcome), the separator it got and the cell v it *)
(* branches on (-1 when it returns without recursing).                     *)
dfs(gph, fl, INF, fr, visited, barea, bwalls) ==
    LET st == [deleted |-> fr.deleted, forced |-> fr.forced, k_rem |-> fr.k_rem]
        quit(why) == [visited |-> visited \cup {st}, best_area |-> barea, best_walls |-> bwalls,
                      outcome |-> why, sep |-> {}, v |-> -1]
    IN IF st \in visited
          THEN [visited |-> visited, best_area |-> barea, best_walls |-> bwalls,
                outcome |-> "memo", sep |-> {}, v |-> -1]
       ELSE LET now == bfs_reachable(gph, fr.deleted)
            IN IF now.area <= barea THEN quit("bound")
               ELSE IF ~subset_of(fr.forced, now.vis) THEN quit("unreached")
               ELSE LET ms == min_separator(gph, fl, INF, fr.deleted, fr.forced, fr.k_rem)
                    IN IF ~ms.ok THEN quit("infeasible")
                       ELSE LET cand_walls == fr.deleted \cup ms.sep
                                ev == bfs_reachable(gph, cand_walls)
                                better == ~ev.escapes /\ ev.area > barea
                                stop == fr.k_rem = 0 \/ ms.sep = {}
                            IN [visited |-> visited \cup {st},
                                best_area |-> IF better THEN ev.area ELSE barea,
                                best_walls |-> IF better THEN cand_walls ELSE bwalls,
                                outcome |-> IF stop THEN "leaf" ELSE "branch",
                                sep |-> ms.sep,
                                v |-> IF stop THEN -1 ELSE first_set_bit(ms.sep)]

(* std::sort of the wall coordinates, line 496: ascending by row, then column. *)
PairLess(a, b) == a[1] < b[1] \/ (a[1] = b[1] /\ a[2] < b[2])

RECURSIVE SortPairs(_)
SortPairs(S) ==
    IF S = {} THEN <<>>
    ELSE LET m == CHOOSE x \in S : \A y \in S \ {x} : PairLess(x, y)
         IN <<m>> \o SortPairs(S \ {m})

(***************************************************************************)
(* The state machine                                                       *)
(***************************************************************************)
NoGraph == [N |-> 0, coords |-> <<>>, adj |-> <<>>, wallable |-> <<>>, boundary |-> {}]

NoFlow == [t |-> <<>>, SRC |-> 0, SNK |-> 0, cell_edge_idx |-> <<>>, src_edge_idx |-> <<>>]

NoCall == [deleted |-> {}, forced |-> {}, k_rem |-> 0, outcome |-> "none", sep |-> {}, best |-> 0]

NoResult == [best_area |-> 0, walls |-> <<>>]

Frame(deleted, forced, k_rem) ==
    [deleted |-> deleted, forced |-> forced, k_rem |-> k_rem, at |-> "entry", v |-> -1]

Top == stack[Len(stack)]

Pop == SubSeq(stack, 1, Len(stack) - 1)

InitWith(kk, gd, jk) ==
    /\ k = kk
    /\ grid = gd
    /\ junk = jk
    /\ pc = "start"
    /\ err = "none"
    /\ oob = FALSE
    /\ graph = NoGraph
    /\ flow = NoFlow
    /\ best_area = 0
    /\ best_walls = {}
    /\ visited_states = {}
    /\ stack = <<>>
    /\ last = NoCall
    /\ res = NoResult

(* solve up to the first dfs call, lines 249-358 and 437-444. *)
Build ==
    /\ pc = "start"
    /\ UNCHANGED <<k, grid, junk, visited_states, last>>
    /\ IF Len(grid) = 0
          THEN \* grid[0] of an empty vector: the read is out of range; what the
               \* build then does is a crash, or R = 0 and no horse is found.
               /\ \E out \in {"crashed", "error"} :
                     /\ pc' = out
                     /\ err' = IF out = "error" THEN "HorseMissing" ELSE "none"
               /\ oob' = TRUE
               /\ UNCHANGED <<graph, flow, best_area, best_walls, stack, res>>
       ELSE LET h == FindHorse(grid, junk)
                ff == IF h[1] = -1 THEN [coords |-> <<>>, idx_of |-> <<>>]
                      ELSE FloodFill(grid, junk, h)
                reads == ScanReads(grid, h) \cup FloodReads(grid, ff.coords)
                gph == BuildGraph(grid, junk, ff)
            IN /\ oob' = (\E p \in reads : p[2] >= Len(grid[p[1] + 1]))
               /\ \E crash \in {FALSE} \cup {\E p \in reads : p[2] > Len(grid[p[1] + 1])} :
                    IF crash
                       THEN /\ pc' = "crashed"
                            /\ UNCHANGED <<err, graph, flow, best_area, best_walls, stack, res>>
                    ELSE IF h[1] = -1
                       THEN /\ pc' = "error"
                            /\ err' = "HorseMissing"
                            /\ UNCHANGED <<graph, flow, best_area, best_walls, stack, res>>
                    ELSE IF horse_idx \in gph.boundary
                       THEN /\ pc' = "done"
                            /\ graph' = gph
                            /\ res' = [best_area |-> 0, walls |-> <<>>]
                            /\ UNCHANGED <<err, flow, best_area, best_walls, stack>>
                    ELSE /\ pc' = "search"
                         /\ graph' = gph
                         /\ flow' = BuildFlow(gph, k + 1)
                         /\ best_area' = 0
                         /\ best_walls' = {}
                         /\ stack' = <<Frame({}, {horse_idx}, k)>>
                         /\ UNCHANGED <<err, res>>

(* A variant of Dfs whose force branch passes forced on unchanged. *)
Dfs_ForcedUnchanged ==
    /\ pc = "search"
    /\ stack # <<>>
    /\ Top.at = "entry"
    /\ LET d == dfs(graph, flow, k + 1, Top, visited_states, best_area, best_walls)
       IN /\ visited_states' = d.visited
          /\ best_area' = d.best_area
          /\ best_walls' = d.best_walls
          /\ last' = [deleted |-> Top.deleted, forced |-> Top.forced, k_rem |-> Top.k_rem,
                      outcome |-> d.outcome, sep |-> d.sep, best |-> best_area]
          /\ stack' = IF d.v < 0 THEN Pop
                      ELSE [stack EXCEPT ![Len(stack)] = [@ EXCEPT !.at = "forced", !.v = d.v]]
                           \o <<Frame(Top.deleted, Top.forced, Top.k_rem)>>
    /\ UNCHANGED <<k, grid, junk, pc, err, oob, graph, flow, res>>

(* A dfs call runs its body up to its first recursive call or its return. *)
Dfs ==
    /\ pc = "search"
    /\ stack # <<>>
    /\ Top.at = "entry"
    /\ LET d == dfs(graph, flow, k + 1, Top, visited_states, best_area, best_walls)
       IN /\ visited_states' = d.visited
          /\ best_area' = d.best_area
          /\ best_walls' = d.best_walls
          /\ last' = [deleted |-> Top.deleted, forced |-> Top.forced, k_rem |-> Top.k_rem,
                      outcome |-> d.outcome, sep |-> d.sep, best |-> best_area]
          /\ stack' = IF d.v < 0 THEN Pop
                      ELSE [stack EXCEPT ![Len(stack)] = [@ EXCEPT !.at = "forced", !.v = d.v]]
                           \o <<Frame(Top.deleted, Top.forced \cup {d.v}, Top.k_rem)>>
    /\ UNCHANGED <<k, grid, junk, pc, err, oob, graph, flow, res>>

(* A variant of the delete branch that passes k_rem on unchanged. *)
DfsDelete_SameBudget ==
    /\ pc = "search"
    /\ stack # <<>>
    /\ Top.at = "forced"
    /\ stack' = [stack EXCEPT ![Len(stack)] = [@ EXCEPT !.at = "deleted"]]
                \o <<Frame(Top.deleted \cup {Top.v}, Top.forced, Top.k_rem)>>
    /\ UNCHANGED <<k, grid, junk, pc, err, oob, graph, flow, best_area, best_walls,
                   visited_states, last, res>>

(* The force branch has returned: the delete branch, lines 484-486. *)
DfsDelete ==
    /\ pc = "search"
    /\ stack # <<>>
    /\ Top.at = "forced"
    /\ stack' = [stack EXCEPT ![Len(stack)] = [@ EXCEPT !.at = "deleted"]]
                \o <<Frame(Top.deleted \cup {Top.v}, Top.forced, Top.k_rem - 1)>>
    /\ UNCHANGED <<k, grid, junk, pc, err, oob, graph, flow, best_area, best_walls,
                   visited_states, last, res>>

(* Both branches have returned: the call returns. *)
DfsReturn ==
    /\ pc = "search"
    /\ stack # <<>>
    /\ Top.at = "deleted"
    /\ stack' = Pop
    /\ UNCHANGED <<k, grid, junk, pc, err, oob, graph, flow, best_area, best_walls,
                   visited_states, last, res>>

(* The result assembly, lines 492-501. *)
Finish ==
    /\ pc = "search"
    /\ stack = <<>>
    /\ pc' = "done"
    /\ res' = [best_area |-> best_area,
               walls |-> SortPairs({graph.coords[i + 1] : i \in best_walls})]
    /\ UNCHANGED <<k, grid, junk, err, oob, graph, flow, best_area, best_walls,
                   visited_states, stack, last>>

Next == Build \/ Dfs \/ DfsDelete \/ DfsReturn \/ Finish

(***************************************************************************)
(* Inputs                                                                  *)
(***************************************************************************)
NoJunk == <<>>

Scenario4Grid ==
    << <<".", ".", ".", ".", ".", ".", ".">>,
       <<".", ".", ".", ".", ".", ".", ".">>,
       <<".", ".", ".", "H", ".", ".", ".">>,
       <<".", ".", ".", ".", ".", ".", ".">>,
       <<".", ".", ".", ".", ".", ".", ".">> >>

InitScenario4 == InitWith(8, Scenario4Grid, NoJunk)

SpecScenario4 == InitScenario4 /\ [][Next]_vars

(* The valid inputs: 0 <= k <= MaxK and a rectangle over '.', '#' and one *)
(* 'H': every grid of a shape in Shapes with the horse at a place in       *)
(* HorsePlaces and at most MaxBlocked '#', and a few larger grids.         *)
MaxK == 4

MaxBlocked == 2

Shapes == {<<3, 3>>, <<4, 4>>}

HorsePlaces == {<<1, 1>>, <<0, 1>>}

Cells(R, C) == (0..(R - 1)) \X (0..(C - 1))

RECURSIVE SubsetsUpTo(_, _)
SubsetsUpTo(S, n) ==
    IF n <= 0 \/ S = {} THEN {{}}
    ELSE LET x == CHOOSE y \in S : TRUE
         IN SubsetsUpTo(S \ {x}, n) \cup {T \cup {x} : T \in SubsetsUpTo(S \ {x}, n - 1)}

GridOf(R, C, hp, B) ==
    [r \in 1..R |-> [c \in 1..C |->
        IF <<r - 1, c - 1>> = hp THEN "H" ELSE IF <<r - 1, c - 1>> \in B THEN "#" ELSE "."]]

GridsOfShape(R, C) ==
    {GridOf(R, C, hp, B) : hp \in HorsePlaces, B \in SubsetsUpTo(Cells(R, C), MaxBlocked)}

LargerGrids ==
    { << <<".", ".", ".", ".", ".">>,
         <<".", "#", ".", "#", ".">>,
         <<".", ".", "H", ".", ".">>,
         <<".", "#", ".", "#", ".">>,
         <<".", ".", ".", ".", ".">> >>,
      << <<".", ".", "#", ".", ".">>,
         <<".", "#", ".", ".", "#">>,
         <<"#", ".", "H", ".", ".">>,
         <<".", ".", ".", "#", ".">>,
         <<".", "#", ".", ".", ".">> >>,
      << <<"#", "#", "#", ".", ".", ".">>,
         <<"#", ".", ".", ".", "#", ".">>,
         <<"#", "H", "#", ".", ".", ".">>,
         <<"#", ".", ".", ".", "#", ".">>,
         <<"#", "#", "#", ".", ".", ".">> >> }

ValidGrids == UNION {GridsOfShape(sh[1], sh[2]) : sh \in Shapes} \cup LargerGrids

Init == \E kk \in 0..MaxK, gd \in ValidGrids : InitWith(kk, gd, NoJunk)

Spec == Init /\ [][Next]_vars

(***************************************************************************)
(* The reference: every wall set of at most k '.' cells, tried in turn     *)
(***************************************************************************)
CharAt(gd, p) == gd[p[1] + 1][p[2] + 1]

GridCells(gd) == Cells(Len(gd), Len(gd[1]))

OnBorder(gd, p) ==
    p[1] = 0 \/ p[1] = Len(gd) - 1 \/ p[2] = 0 \/ p[2] = Len(gd[1]) - 1

Neighbours4(p) == {<<p[1] + 1, p[2]>>, <<p[1] - 1, p[2]>>, <<p[1], p[2] + 1>>, <<p[1], p[2] - 1>>}

RECURSIVE Spread(_, _, _)
Spread(free, seen, frontier) ==
    IF frontier = {} THEN seen
    ELSE LET nxt == (UNION {Neighbours4(p) : p \in frontier} \cap free) \ seen
         IN Spread(free, seen \cup nxt, nxt)

HorseCell(gd) == CHOOSE p \in GridCells(gd) : CharAt(gd, p) = "H"

OpenCells(gd) == {p \in GridCells(gd) : is_open_cell(CharAt(gd, p))}

(* The cells a 4-neighbour flood from H reaches with '#' and W blocked. *)
Region(gd, W) == Spread(OpenCells(gd) \ W, {HorseCell(gd)}, {HorseCell(gd)})

(* The largest enclosed region over all wall sets W of at most kk '.'      *)
(* cells, 0 when no W encloses the horse.  A region holds H, so a horse on *)
(* the border is enclosed by no W.                                         *)
BruteBest(gd, kk) ==
    LET h == HorseCell(gd)
        open == OpenCells(gd)
        border == {p \in open : OnBorder(gd, p)}
        dots == {p \in open : CharAt(gd, p) = "."}
        regions == IF h \in border THEN {}
                   ELSE {Spread(open \ W, {h}, {h}) : W \in SubsetsUpTo(dots, kk)}
        areas == {Cardinality(A) : A \in {X \in regions : X \cap border = {}}}
    IN IF areas = {} THEN 0 ELSE CHOOSE a \in areas : \A b \in areas : b <= a

(***************************************************************************)
(* Inputs outside the valid ones: what solve does with an empty grid, a    *)
(* negative k, a grid that is only the horse, a character outside the      *)
(* alphabet, and rows of unequal length                                    *)
(***************************************************************************)
Alphabet == {".", "#", "H"}

InvalidChars == {"X"}

(* What may lie in memory past a row's terminator. *)
JunkChars == {".", "#", "H"}

EmptyGrid == <<>>

HorseOnlyGrid == << <<"H">> >>

Rectangular(gd) == Len(gd) > 0 /\ \A r \in 1..Len(gd) : Len(gd[r]) = Len(gd[1])

Ragged(gd) == Len(gd) > 0 /\ ~Rectangular(gd)

HasInvalidChar(gd) == \E r \in 1..Len(gd) : \E c \in 1..Len(gd[r]) : gd[r][c] \notin Alphabet

OneHorse(gd) ==
    Cardinality({p \in (1..Len(gd)) \X (1..Len(gd[1])) : gd[p[1]][p[2]] = "H"}) = 1

ValidGrid(gd) == Rectangular(gd) /\ ~HasInvalidChar(gd) /\ OneHorse(gd)

Dots(gd) == {p \in (1..Len(gd)) \X (1..Len(gd[1])) : gd[p[1]][p[2]] = "."}

Replace(gd, p, ch) == [gd EXCEPT ![p[1]][p[2]] = ch]

Shorten(gd, r, n) == [gd EXCEPT ![r] = SubSeq(@, 1, n)]

Lengthen(gd, r) == [gd EXCEPT ![r] = Append(@, ".")]

InvalidCharGrids ==
    {Replace(gd, p, ch) : <<gd, p>> \in {x \in GridsOfShape(3, 3) \X Cells(4, 4) : x[2] \in Dots(x[1])},
                          ch \in InvalidChars}

RaggedBase == {GridOf(3, 4, hp, {}) : hp \in HorsePlaces}

RaggedGrids ==
    {Shorten(gd, r, n) : gd \in RaggedBase, r \in 1..3, n \in 1..3}
    \cup {Lengthen(gd, r) : gd \in RaggedBase, r \in 1..3}

RawInputs ==
    ((0 - MaxK)..MaxK) \X {EmptyGrid, HorseOnlyGrid}
    \cup ((0 - MaxK)..(0 - 1)) \X (GridsOfShape(3, 3) \cup LargerGrids)
    \cup (0..MaxK) \X (InvalidCharGrids \cup RaggedGrids)

InitRaw ==
    \E inp \in RawInputs : \E jk \in [PastEnd(inp[2]) -> JunkChars] :
        InitWith(inp[1], inp[2], jk)

SpecRaw == InitRaw /\ [][Next]_vars

Terminated == pc \in {"done", "error", "crashed"}

(***************************************************************************)
(* Properties of solve on the valid inputs (Spec)                          *)
(***************************************************************************)
Walls == Range(res.walls)

Coord(i) == graph.coords[i + 1]

CoordsOf(S) == {Coord(i) : i \in S}

Escapes(gd, W) == \E p \in Region(gd, W) : OnBorder(gd, p)

(* C1: when solve returns on a valid input, best_area is the largest area  *)
(* any set of at most k '.' cells encloses, and 0 when none encloses the   *)
(* horse.                                                                  *)
C1_Optimality == pc = "done" => res.best_area = BruteBest(grid, k)

(* solve has returned an area above 1 that it found on a branch below the  *)
(* root call.                                                              *)
C1_Witness ==
    /\ pc = "done"
    /\ res.best_area >= 3
    /\ Cardinality(visited_states) >= 5
    /\ res.best_area = BruteBest(grid, k)

(* C2, as amended: when solve returns a positive best_area, the flood from *)
(* H with the returned walls and '#' blocked reaches no border cell.       *)
C2_Enclosure == (pc = "done" /\ res.best_area > 0) => ~Escapes(grid, Walls)

(* solve has returned walls (at least two) that enclose the horse. *)
C2_Witness ==
    /\ pc = "done"
    /\ res.best_area > 0
    /\ Len(res.walls) >= 2
    /\ ~Escapes(grid, Walls)

(* C2 as stated: on every valid input the flood with the returned walls    *)
(* reaches no border cell.                                                 *)
C2_Original == pc = "done" => ~Escapes(grid, Walls)

(* C3, as amended: when solve returns a positive best_area, best_area is   *)
(* the number of cells of the flood from H with the returned walls and '#' *)
(* blocked.                                                                *)
C3_AreaConsistency ==
    (pc = "done" /\ res.best_area > 0) => res.best_area = Cardinality(Region(grid, Walls))

(* solve has returned an enclosure of several cells with walls placed. *)
C3_Witness ==
    /\ pc = "done"
    /\ res.best_area >= 2
    /\ Len(res.walls) >= 1
    /\ res.best_area = Cardinality(Region(grid, Walls))

(* C3 as stated: on every valid input best_area is the size of that flood. *)
C3_Original == pc = "done" => res.best_area = Cardinality(Region(grid, Walls))

(* C4: every wall set stored into best_walls, and the wall list solve      *)
(* returns, has at most k cells.                                           *)
C4_Budget == popcount(best_walls) <= k /\ Len(res.walls) <= k

(* solve has returned a wall list that spends the whole budget. *)
C4_Witness == pc = "done" /\ k >= 3 /\ Len(res.walls) = k /\ popcount(best_walls) = k

(* C9: when the min_separator call of a dfs body succeeds, the separator   *)
(* has at most k_rem cells, all of them wallable and outside deleted and   *)
(* forced, and with deleted and the separator blocked no path of open      *)
(* cells leads from the horse to a border cell.                            *)
C9_MinSeparatorSound ==
    last.outcome \in {"leaf", "branch"} =>
        /\ popcount(last.sep) <= last.k_rem
        /\ \A i \in last.sep : /\ i \in 0..(graph.N - 1)
                               /\ CharAt(grid, Coord(i)) = "."
                               /\ i \notin last.deleted \cup last.forced
        /\ ~Escapes(grid, CoordsOf(last.deleted \cup last.sep))

(* min_separator has succeeded below the root, with cells deleted, cells   *)
(* forced beside the horse and a separator of several cells.               *)
C9_Witness ==
    /\ last.outcome = "branch"
    /\ last.deleted # {}
    /\ popcount(last.forced) >= 2
    /\ popcount(last.sep) >= 2
    /\ ~Escapes(grid, CoordsOf(last.deleted \cup last.sep))

(* C10: every dfs call is entered with deleted made of wallable cells      *)
(* other than the horse, the horse in forced, deleted and forced disjoint, *)
(* and 0 <= k_rem = k - |deleted| <= k.                                    *)
C10_SearchState ==
    \A n \in 1..Len(stack) :
        LET fr == stack[n]
        IN /\ \A i \in fr.deleted : i \in 0..(graph.N - 1) /\ graph.wallable[i] /\ i # horse_idx
           /\ horse_idx \in fr.forced
           /\ ~intersects(fr.deleted, fr.forced)
           /\ 0 <= fr.k_rem
           /\ fr.k_rem = k - popcount(fr.deleted)
           /\ fr.k_rem <= k

(* A dfs call is about to be entered with two cells deleted and another    *)
(* cell forced beside the horse.                                           *)
C10_Witness ==
    /\ pc = "search"
    /\ stack # <<>>
    /\ Top.at = "entry"
    /\ popcount(Top.deleted) >= 2
    /\ popcount(Top.forced) >= 2
    /\ Top.k_rem = k - popcount(Top.deleted)

(***************************************************************************)
(* Scenario 4 (SpecScenario4)                                              *)
(***************************************************************************)
Dist(p, q) ==
    (IF p[1] >= q[1] THEN p[1] - q[1] ELSE q[1] - p[1])
    + (IF p[2] >= q[2] THEN p[2] - q[2] ELSE q[2] - p[2])

(* C5, as amended: with k = 8 on the open 5x7 grid with H at (2, 3), solve *)
(* returns best_area = 5, the horse and its four neighbours, and as walls  *)
(* the 8 cells at distance 2 from the horse.                               *)
C5_Scenario4 ==
    pc = "done" =>
        /\ res.best_area = 5
        /\ Len(res.walls) = 8
        /\ Walls = {p \in GridCells(grid) : Dist(p, <<2, 3>>) = 2}
        /\ Region(grid, Walls) = {p \in GridCells(grid) : Dist(p, <<2, 3>>) <= 1}

(* solve has returned on scenario 4 after a search that branched. *)
C5_Witness ==
    /\ pc = "done"
    /\ grid = Scenario4Grid
    /\ k = 8
    /\ Cardinality(visited_states) > 100
    /\ res.best_area = 5

(* C5 as stated: best_area = 9, the 3x3 block around the horse, with 8     *)
(* walls.                                                                  *)
C5_Original ==
    pc = "done" =>
        /\ res.best_area = 9
        /\ Len(res.walls) = 8
        /\ Region(grid, Walls) = {p \in GridCells(grid) : p[1] \in 1..3 /\ p[2] \in 2..4}

(***************************************************************************)
(* Properties of solve on the other inputs (SpecRaw)                       *)
(***************************************************************************)
(* C6 as stated: with an empty grid, a negative k or a grid that is only   *)
(* the horse, solve returns best_area = 0 and no walls, raises no error    *)
(* and reads nothing out of range.                                         *)
C6_DegenerateSafe ==
    (grid = EmptyGrid \/ grid = HorseOnlyGrid \/ k < 0) =>
        /\ ~oob
        /\ err = "none"
        /\ Terminated => (pc = "done" /\ res = [best_area |-> 0, walls |-> <<>>])

(* The grid with every character outside the alphabet read as '#'. *)
AsBlocked(gd) ==
    [r \in 1..Len(gd) |-> [c \in 1..Len(gd[r]) |->
        IF gd[r][c] \in Alphabet THEN gd[r][c] ELSE "#"]]

(* C7, as amended: on a rectangular grid with an H and a character outside *)
(* the alphabet solve raises no error: it reads that character as a        *)
(* blocked cell and returns the optimum of the grid so read, with no wall  *)
(* on that character.                                                      *)
C7_InvalidCharacter ==
    (HasInvalidChar(grid) /\ Rectangular(grid) /\ k >= 0) =>
        /\ err = "none"
        /\ pc \notin {"error", "crashed"}
        /\ pc = "done" =>
              /\ res.best_area = BruteBest(AsBlocked(grid), k)
              /\ \A p \in Walls : CharAt(grid, p) = "."

(* solve has returned an enclosure that a character outside the alphabet   *)
(* bounds, with fewer walls than the horse has neighbours.                 *)
C7_Witness ==
    /\ pc = "done"
    /\ HasInvalidChar(grid)
    /\ res.best_area >= 1
    /\ Len(res.walls) <= 3
    /\ \E p \in Region(grid, Walls) : \E q \in Neighbours4(p) \cap GridCells(grid) :
           CharAt(grid, q) \notin Alphabet

(* C7 as stated: the call ends in an InvalidCharacter error. *)
C7_Original ==
    (HasInvalidChar(grid) /\ Terminated) => (pc = "error" /\ err = "InvalidCharacter")

(* C8 as stated: on rows of unequal length the call ends in an             *)
(* InvalidGridShape error and no cell is read at a column past the end of  *)
(* its row.                                                                *)
C8_InvalidGridShape ==
    Ragged(grid) =>
        /\ ~oob
        /\ Terminated => (pc = "error" /\ err = "InvalidGridShape")

(***************************************************************************)
(* Termination and the memo (SpecFair, Spec)                               *)
(***************************************************************************)
Running == pc \in {"start", "search"}

(* A step to a position solve never takes: no step of Next is one. *)
Leave ==
    /\ Running
    /\ pc' = "left"
    /\ UNCHANGED <<k, grid, junk, err, oob, graph, flow, best_area, best_walls,
                   visited_states, stack, last, res>>

(* Each action of Next is enabled by its guard alone, so a step of Next is *)
(* possible exactly while solve is running.                                *)
Guarded == Running => (pc = "start" \/ stack = <<>> \/ Top.at \in {"entry", "forced", "deleted"})

(* solve is one thread with nothing to wait for: while it has neither      *)
(* returned nor thrown, its next step is taken.  That is WF_vars(Next);    *)
(* Leave adds no step and makes the action enabled exactly when Running,   *)
(* which is when Next is enabled (Guarded), so enabledness is read off pc. *)
SpecFair == Init /\ [][Next]_vars /\ WF_vars(Leave \/ Next)

Measure(fr) == popcount(fr.deleted) + popcount(fr.forced)

(* The call in frame n was made by the call in frame n - 1: by its force   *)
(* branch or by its delete branch, on a cell v that was in neither set.    *)
ChildOf(ch, pa) ==
    /\ pa.at \in {"forced", "deleted"}
    /\ pa.v \in 0..(graph.N - 1)
    /\ pa.v \notin pa.deleted \cup pa.forced
    /\ pa.at = "forced" =>
          /\ ch.forced = pa.forced \cup {pa.v}
          /\ ch.deleted = pa.deleted
    /\ pa.at = "deleted" =>
          /\ ch.deleted = pa.deleted \cup {pa.v}
          /\ ch.forced = pa.forced
          /\ pa.k_rem >= 1
          /\ ch.k_rem = pa.k_rem - 1
    /\ Measure(ch) = Measure(pa) + 1

RecursionBounded ==
    /\ \A n \in 2..Len(stack) : ChildOf(stack[n], stack[n - 1])
    /\ \A n \in 1..Len(stack) : Measure(stack[n]) <= graph.N
    /\ Len(stack) <= graph.N

(* C11: on a valid input with k >= 0 solve returns; each recursive dfs     *)
(* call adds one cell that was in neither set to deleted or to forced, so  *)
(* |deleted| + |forced| grows by one per level and stays within the number *)
(* of indexed cells, and the delete branch is taken only with k_rem >= 1.  *)
C11_Termination == <>(pc = "done") /\ [](RecursionBounded /\ Guarded)

(* solve has returned after a search three levels deep or more. *)
C11_Witness ==
    /\ pc = "done"
    /\ k >= 3
    /\ Cardinality(visited_states) >= 15
    /\ \E st \in visited_states : popcount(st.deleted) + popcount(st.forced) >= 4

(* State st{deleted, forced, k_rem}, line 448. *)
StateOf(fr) == [deleted |-> fr.deleted, forced |-> fr.forced, k_rem |-> fr.k_rem]

(* C12: no dfs call is entered with a (deleted, forced, k_rem) that an     *)
(* earlier call of the same solve had: the lookup in visited_states never  *)
(* finds the state, and no call returns at the memo check.                 *)
C12_MemoNeverHits ==
    /\ last.outcome # "memo"
    /\ (pc = "search" /\ stack # <<>> /\ Top.at = "entry") => StateOf(Top) \notin visited_states

(* A delete branch is entered late in a search, with a state not yet seen. *)
C12_Witness ==
    /\ pc = "search"
    /\ stack # <<>>
    /\ Top.at = "entry"
    /\ Top.deleted # {}
    /\ Cardinality(visited_states) >= 20
    /\ StateOf(Top) \notin visited_states

====
